---------------------------- MODULE Spec2Model ----------------------------
(***************************************************************************)
(* A state-machine model of the AberLED library (src/AberLED/AberLED.cpp): *)
(* the double-buffered frame store, the row-by-row refresh driver, the     *)
(* round-robin button debouncer that shares the timer interrupt with it,   *)
(* and swap(), the one point where the two execution contexts meet.        *)
(*                                                                         *)
(* Two contexts run: the application (one flow of control, whose position  *)
(* is pc) and the TIMER1_COMPA interrupt, which is one atomic step because *)
(* an AVR interrupt handler runs with interrupts masked.                   *)
(***************************************************************************)
EXTENDS Integers, Sequences, FiniteSets, TLC

(***************************************************************************)
(* Program constants.                                                      *)
(***************************************************************************)
NROWS == 8
NBUTTONS == 5
WORD == 65536
INTWORD == 65536
REV00 == 0
REV01 == 1
MAXTEXTLEN == 32

(***************************************************************************)
(* Bounds of the model.                                                    *)
(***************************************************************************)
\* interrupt firings allowed between two resets of interruptTicks
MaxTicks == 3
\* interrupt firings of a run in which the application never calls swap()
MaxHorizon == 48
\* set() calls of a run of the pixel-write specification
MaxSets == 1
\* clearText() and addToText() calls of a run of the text specification
MaxTextOps == 3
\* swap() calls of a run that counts them
MaxSwaps == 2

Rows == 0 .. (NROWS - 1)
Buttons == 0 .. (NBUTTONS - 1)

(***************************************************************************)
(* 16-bit arithmetic of the ATmega328p (int and uint16_t are 16 bits wide).*)
(***************************************************************************)
RECURSIVE Pow2(_)
Pow2(n) == IF n = 0 THEN 1 ELSE 2 * Pow2(n - 1)

RECURSIVE BitAndN(_, _, _)
BitAndN(a, b, n) ==
    IF n = 0 \/ a = 0 \/ b = 0 THEN 0
    ELSE (a % 2) * (b % 2) + 2 * BitAndN(a \div 2, b \div 2, n - 1)

RECURSIVE BitOrN(_, _, _)
BitOrN(a, b, n) ==
    IF n = 0 THEN 0
    ELSE IF a = 0 THEN b % Pow2(n)
    ELSE IF b = 0 THEN a % Pow2(n)
    ELSE (IF (a % 2) + (b % 2) > 0 THEN 1 ELSE 0)
             + 2 * BitOrN(a \div 2, b \div 2, n - 1)

\* a & b, a | b, ~a and a << n on 16-bit words
BitAnd(a, b) == BitAndN(a, b, 16)
BitOr(a, b) == BitOrN(a, b, 16)
BitNot(a) == (WORD - 1) - a
Shl(a, n) == (a * Pow2(n)) % WORD

\* interruptTicks++ on a 16-bit int (two's complement wrap of avr-gcc)
IncInt(n) == IF n + 1 >= INTWORD \div 2 THEN n + 1 - INTWORD ELSE n + 1

ZeroBuffer == [r \in Rows |-> 0]
ZeroButtons == [b \in Buttons |-> 0]

VARIABLES
    \* ---- the program's state ----
    bufferA, bufferB,           \* the two frame buffers, 8 words each
    backBuffer, frontBuffer,    \* which buffer each pointer refers to: "A" or "B"
    buttonStates, debouncedButtonStates, buttonDebounceCounters,
    buttonWentDown, buttonWentDownInLastLoop, trueButtonStates,
    button,                     \* the ISR's static round-robin channel index
    boardRev,
    ticks, interruptTicks, interruptRunning, isTFT,
    txtBuffer, prevTxtBuffer,   \* pending and last rendered text
    refrow,                     \* the refresh cursor
    rowReg,                     \* the cursor value the refreshNextRow() call that
                                \* refresh() is running read (0 outside such a call)
    \* ---- the hardware ----
    iflag,                      \* the CPU's global interrupt enable (cli/sei)
    PINC, PINB,                 \* the input pin registers
    rowSR, colSR,               \* row and column shift registers (direct drive)
    \* ---- the application ----
    pc,                         \* where the application's flow of control is
    \* ---- history (observations only, never read by an action's guard) ----
    frontAtSwap,                \* the front buffer's contents at the last pointer swap
    scanLog,                    \* <<row, word>> of the scan steps since the last
                                \* pointer swap, the last NROWS of them
    rowAtSwap,                  \* the refresh cursor at the last pointer swap
    firings,                    \* interrupt firings since the last reset of interruptTicks
    counted,                    \* the value of firings when ticks was last snapshotted
    lastOp,                     \* the last operation the application ran, with its inputs
    preOp,                      \* the program state just before lastOp
    hotPin,                     \* the one input pin the environment operates in this run
    flip,                       \* per channel, about the last sample that read a changed
                                \* level: age, the samples of the channel since; deb, its
                                \* debounced state before; at, the firings up to that sample
    reads,                      \* per channel: the levels read since the last swap's copy,
                                \* after the last level read before it
    pulse,                      \* the hot pin since swap() last returned: "idle" (released
                                \* all along), "down" (pressed since), "done" (pressed and
                                \* released since), "held" (it was down when swap() returned)
    pulseInLastLoop,            \* whether pulse was "done" when swap() was last called
    riseInLastLoop,             \* per channel: a rising read in the interval the last copy closed
    repaints,                   \* repaints of the text region since swap() was last called
    textOps,                    \* clearText() and addToText() calls made so far
    refreshLog,                 \* <<row, word>> of the scan steps of the last refresh()
    swaps,                      \* swap() calls made so far, where a run counts them
    window                      \* the rows scanned, by refresh() or by the interrupt, from
                                \* the last refresh()'s reset of the cursor to the end of
                                \* its eighth step

bufVars == <<bufferA, bufferB, backBuffer, frontBuffer>>
btnVars == <<buttonStates, debouncedButtonStates, buttonDebounceCounters,
             buttonWentDown, buttonWentDownInLastLoop, trueButtonStates, button, boardRev>>
tickVars == <<ticks, interruptTicks>>
modeVars == <<interruptRunning, isTFT>>
txtVars == <<txtBuffer, prevTxtBuffer>>
pinVars == <<PINC, PINB, hotPin>>
outVars == <<rowSR, colSR>>
scanHist == <<frontAtSwap, scanLog, rowAtSwap>>
btnHist == <<flip, reads, pulse, pulseInLastLoop, riseInLastLoop>>
opHist == <<lastOp, preOp>>
refHist == <<refreshLog, window>>
txtHist == <<repaints, textOps>>

\* every variable of the program and of the hardware
progState == <<bufVars, btnVars, tickVars, modeVars, txtVars, refrow, rowReg, iflag, PINC,
               PINB, outVars, pc>>

hist == <<scanHist, firings, counted, btnHist, opHist, refHist, txtHist, swaps>>

vars == <<bufVars, btnVars, tickVars, modeVars, txtVars, refrow, rowReg, iflag, pinVars,
          outVars, pc, scanHist, firings, counted, btnHist, opHist, refHist, txtHist,
          swaps>>

\* the buffer a pointer refers to
Deref(p) == IF p = "A" THEN bufferA ELSE bufferB
Front == Deref(frontBuffer)
Back == Deref(backBuffer)


(***************************************************************************)
(* begin(flags): the state it leaves (lines 158-234).  REV01 is set, both  *)
(* buffers are cleared, bufferA is the back buffer, the texts are empty,   *)
(* and the timer interrupt is started unless AF_NOINTERRUPT was given.     *)
(* Every button is released (pull-ups read high).                          *)
(***************************************************************************)
Started(tft, noInterrupt, rev, bufA, bufB) ==
    /\ bufferA = bufA
    /\ bufferB = bufB
    /\ backBuffer = "A"
    /\ frontBuffer = "B"
    /\ buttonStates = ZeroButtons
    /\ debouncedButtonStates = ZeroButtons
    /\ buttonDebounceCounters = ZeroButtons
    /\ buttonWentDown = ZeroButtons
    /\ buttonWentDownInLastLoop = ZeroButtons
    /\ trueButtonStates = ZeroButtons
    /\ button = 0
    /\ boardRev = rev
    /\ ticks = 0
    /\ interruptTicks = 0
    /\ interruptRunning = ~noInterrupt
    /\ isTFT = tft
    /\ txtBuffer = <<>>
    /\ prevTxtBuffer = <<>>
    /\ refrow = 0
    /\ rowReg = 0
    /\ iflag = TRUE
    /\ PINC = 15
    /\ PINB = 2
    /\ rowSR = 0
    /\ colSR = 0
    /\ pc = "idle"

Begin(tft, noInterrupt) == Started(tft, noInterrupt, REV01, ZeroBuffer, ZeroBuffer)

\* the histories at startup: nothing has been observed yet
NoHistory ==
    /\ frontAtSwap = bufferB
    /\ scanLog = <<>>
    /\ rowAtSwap = 0
    /\ firings = 0
    /\ counted = 0
    /\ lastOp = [op |-> "begin", n |-> 0]
    /\ preOp = [back |-> bufferA, state |-> <<>>]
    /\ flip = [b \in Buttons |-> [age |-> -1, deb |-> 0, at |-> 0]]
    /\ reads = [b \in Buttons |-> <<0>>]
    /\ pulse = "held"
    /\ pulseInLastLoop = FALSE
    /\ riseInLastLoop = [b \in Buttons |-> FALSE]
    /\ repaints = 0
    /\ textOps = 0
    /\ swaps = 0
    /\ refreshLog = <<>>
    /\ window = <<>>

(***************************************************************************)
(* set(x, y, col), lines 341-352, and clear(), lines 356-359.              *)
(***************************************************************************)
InRange(x, y) == x < 8 /\ y < 8 /\ x >= 0 /\ y >= 0

\* *p &= ~(3 << x); *p |= col << x;   with x already doubled
SetRowNoClear(w, x2, col) == BitOr(w, Shl(col, x2))
SetRow(w, x2, col) == BitOr(BitAnd(w, BitNot(Shl(3, x2))), Shl(col, x2))

SetBufferWrapped(buf, x, y, col) ==
    [buf EXCEPT ![y % NROWS] = SetRow(buf[y % NROWS], 2 * (x % NROWS), col)]
SetBuffer(buf, x, y, col) ==
    IF InRange(x, y) THEN [buf EXCEPT ![y] = SetRow(buf[y], 2 * x, col)] ELSE buf

\* the buffer set() and clear() write through
WriteTargetFront == frontBuffer
WriteTarget == backBuffer

\* set() is taken as one step: the interrupt neither reads nor writes the
\* buffer set() writes, so its two read-modify-writes cannot be observed apart
Set(x, y, col) ==
    /\ pc = "idle"
    /\ bufferA' = IF WriteTarget = "A" THEN SetBuffer(bufferA, x, y, col) ELSE bufferA
    /\ bufferB' = IF WriteTarget = "B" THEN SetBuffer(bufferB, x, y, col) ELSE bufferB
    /\ UNCHANGED <<backBuffer, frontBuffer, btnVars, tickVars, modeVars, txtVars, refrow,
                   rowReg, iflag, pinVars, outVars, pc>>

Clear ==
    /\ pc = "idle"
    /\ bufferA' = IF WriteTarget = "A" THEN ZeroBuffer ELSE bufferA
    /\ bufferB' = IF WriteTarget = "B" THEN ZeroBuffer ELSE bufferB
    /\ UNCHANGED <<backBuffer, frontBuffer, btnVars, tickVars, modeVars, txtVars, refrow,
                   rowReg, iflag, pinVars, outVars, pc>>

(***************************************************************************)
(* refreshNextRow(), lines 367-408.                                        *)
(***************************************************************************)
\* fastShiftOutCols(n): 16 clock pulses, bit 15 first, each shifting one bit
\* into the 16-bit column chain
RECURSIVE ShiftOutBits(_, _, _)
ShiftOutBits(sr, n, left) ==
    IF left = 0 THEN sr
    ELSE ShiftOutBits((sr * 2 + (n \div (WORD \div 2))) % WORD, (n * 2) % WORD, left - 1)

fastShiftOutCols(sr, n) == ShiftOutBits(sr, n, 16)

\* one pulse of the row clock: the row chain moves along by one and takes the
\* data line, which is high only when row 0 is scanned (lines 384-396)
RowClockDataHigh(sr, row) == (sr * 2 + 1) % 256
RowClock(sr, row) == (sr * 2 + (IF row = 0 THEN 1 ELSE 0)) % 256

\* the row the scan step reads: the front buffer's row at the cursor
ScanWordBack == Back[refrow]
ScanWord == Front[refrow]

\* refrow = (refrow + 1) % 8
NextRowNoWrap(r) == IF r + 1 = NROWS THEN r ELSE r + 1
NextRow(r) == (r + 1) % NROWS

\* the word shifted into the column chain for a row word: ~(frontBuffer[refrow])
ColumnWordPlain(w) == w
ColumnWord(w) == BitNot(w)

\* lines 369-405: the row at the cursor goes to the display.  In direct drive
\* the row chain is clocked once and the column chain takes the row's word;
\* on the TFT eight rectangles are painted and no shift register exists
ScanRow ==
    IF isTFT
    THEN UNCHANGED <<rowSR, colSR>>
    ELSE /\ rowSR' = RowClock(rowSR, refrow)
         /\ colSR' = fastShiftOutCols(colSR, ColumnWord(ScanWord))

\* the whole of refreshNextRow() in one step, as the interrupt runs it
refreshNextRow ==
    /\ ScanRow
    /\ refrow' = NextRow(refrow)

(***************************************************************************)
(* ISR(TIMER1_COMPA_vect), lines 439-510.                                  *)
(***************************************************************************)
\* the pin a channel is read from: <<register, mask>> (the two switches)
PinOf(rev, b) ==
    IF rev = REV00
    THEN CASE b = 0 -> <<"C", 2>>
           [] b = 1 -> <<"C", 1>>
           [] b = 2 -> <<"C", 4>>
           [] b = 3 -> <<"C", 8>>
           [] b = 4 -> <<"B", 2>>
    ELSE CASE b = 0 -> <<"C", 1>>
           [] b = 1 -> <<"C", 8>>
           [] b = 2 -> <<"C", 4>>
           [] b = 3 -> <<"C", 2>>
           [] b = 4 -> <<"B", 2>>

\* bstate = PINx & mask;  bstate = bstate ? 0 : 1;
ReadButton(rev, b, pinc, pinb) ==
    LET pin == PinOf(rev, b)
        raw == BitAnd(IF pin[1] = "C" THEN pinc ELSE pinb, pin[2])
    IN  IF raw # 0 THEN 0 ELSE 1

\* lines 496-506: the channel's counter, debounced state and went-down flag
\* after a sample bstate, given the level of its previous sample
CounterNoReset(bstate, prev, cnt) ==
    IF bstate # prev THEN cnt
    ELSE IF cnt + 1 = 4 THEN 0 ELSE cnt + 1
CounterNext(bstate, prev, cnt) ==
    IF bstate # prev THEN 0
    ELSE IF cnt + 1 = 4 THEN 0 ELSE (cnt + 1) % 256

DebouncedEarly(bstate, prev, cnt, deb) ==
    IF bstate = prev /\ cnt + 1 = 3 THEN bstate ELSE deb
DebouncedNext(bstate, prev, cnt, deb) ==
    IF bstate = prev /\ cnt + 1 = 4 THEN bstate ELSE deb

WentDownOnCommit(bstate, prev, cnt, wd) ==
    IF bstate = prev /\ cnt + 1 = 4 /\ bstate # 0 THEN 1 ELSE wd
WentDownNext(bstate, prev, cnt, wd) ==
    IF bstate # prev /\ bstate # 0 THEN 1 ELSE wd

\* button = (button + 1) % 5
NextButtonSkip(b) == (b + 2) % NBUTTONS
NextButton(b) == (b + 1) % NBUTTONS

\* the interrupt fires only when the timer was started and interrupts are
\* enabled; cap bounds the firings between two resets of interruptTicks
ISR(cap) ==
    /\ interruptRunning
    /\ iflag
    /\ interruptTicks < cap
    /\ interruptTicks' = IncInt(interruptTicks)
    /\ refreshNextRow
    /\ LET bstate == ReadButton(boardRev, button, PINC, PINB)
           prev == trueButtonStates[button]
           cnt == buttonDebounceCounters[button]
       IN  /\ buttonDebounceCounters' =
                  [buttonDebounceCounters EXCEPT ![button] = CounterNext(bstate, prev, cnt)]
           /\ buttonWentDown' =
                  [buttonWentDown EXCEPT ![button] = WentDownNext(bstate, prev, cnt, @)]
           /\ debouncedButtonStates' =
                  [debouncedButtonStates EXCEPT ![button] = DebouncedNext(bstate, prev, cnt, @)]
           /\ trueButtonStates' = [trueButtonStates EXCEPT ![button] = bstate]
    /\ button' = NextButton(button)
    /\ UNCHANGED <<bufVars, buttonStates, buttonWentDownInLastLoop, boardRev, ticks,
                   modeVars, txtVars, rowReg, iflag, pinVars, pc>>


(***************************************************************************)
(* swap(), lines 259-289, statement by statement.  pc names the statement  *)
(* the application is about to run.                                        *)
(***************************************************************************)
Last(q) == q[Len(q)]

\* a level read active right after a level read inactive
Rise(q) == \E i \in 1 .. (Len(q) - 1) : q[i] = 0 /\ q[i + 1] # 0

\* the hot pin reads low (its button is held down)
HotActive ==
    IF hotPin < 4 THEN BitAnd(PINC, Pow2(hotPin)) = 0 ELSE BitAnd(PINB, 2) = 0

\* the interrupt enable flag after cli() and after sei()
cliIgnored == iflag
cli == FALSE
sei == TRUE

\* cli();
SwapCli ==
    /\ pc = "idle"
    /\ iflag' = cli
    /\ pc' = "swap_copy"
    /\ lastOp' = [op |-> "swap_call", dirty |-> txtBuffer # prevTxtBuffer]
    /\ pulseInLastLoop' = (pulse = "done")
    /\ repaints' = 0
    /\ UNCHANGED <<bufVars, btnVars, tickVars, modeVars, txtVars, refrow, rowReg, pinVars,
                   outVars, scanHist, firings, counted, flip, reads, pulse, riseInLastLoop,
                   preOp, refHist, textOps, swaps>>

\* the went-down flags the loop of lines 264-269 leaves behind
ClearWentDown(wd) == ZeroButtons

\* for (i = 0; i < 5; i++) { ... }
SwapButtons ==
    /\ pc = "swap_copy"
    /\ buttonWentDownInLastLoop' = buttonWentDown
    /\ buttonWentDown' = ClearWentDown(buttonWentDown)
    /\ buttonStates' = debouncedButtonStates
    /\ pc' = "swap_ticks"
    /\ riseInLastLoop' = [b \in Buttons |-> Rise(reads[b])]
    /\ reads' = [b \in Buttons |-> <<Last(reads[b])>>]
    /\ UNCHANGED <<bufVars, debouncedButtonStates, buttonDebounceCounters, trueButtonStates,
                   button, boardRev, tickVars, modeVars, txtVars, refrow, rowReg, iflag,
                   pinVars, outVars, scanHist, firings, counted, flip, pulse,
                   pulseInLastLoop, opHist, refHist, txtHist, swaps>>

\* the value interruptTicks is left with by line 272
TicksKept(n) == n
TicksReset(n) == 0

\* ticks = interruptTicks; interruptTicks = 0;
SwapTicks ==
    /\ pc = "swap_ticks"
    /\ ticks' = interruptTicks
    /\ interruptTicks' = TicksReset(interruptTicks)
    /\ pc' = "swap_ptr"
    /\ counted' = firings
    /\ firings' = 0
    /\ UNCHANGED <<bufVars, btnVars, modeVars, txtVars, refrow, rowReg, iflag, pinVars,
                   outVars, scanHist, btnHist, opHist, refHist, txtHist, swaps>>

\* t = frontBuffer; frontBuffer = backBuffer; backBuffer = t;   as <<front, back>>
PointerSwapNoTemp(front, back) == <<back, back>>
PointerSwap(front, back) == <<back, front>>

SwapPointers ==
    /\ pc = "swap_ptr"
    /\ frontBuffer' = PointerSwap(frontBuffer, backBuffer)[1]
    /\ backBuffer' = PointerSwap(frontBuffer, backBuffer)[2]
    /\ pc' = "swap_render"
    /\ frontAtSwap' = Deref(frontBuffer')
    /\ scanLog' = <<>>
    /\ rowAtSwap' = refrow
    /\ UNCHANGED <<bufferA, bufferB, btnVars, tickVars, modeVars, txtVars, refrow, rowReg,
                   iflag, pinVars, outVars, firings, counted, btnHist, opHist, refHist,
                   txtHist, swaps>>

\* strcmp(txtBuffer, prevTxtBuffer) is nonzero
TextDiffers(txt, prev) == txt # prev

\* prevTxtBuffer after strcpy(prevTxtBuffer, txtBuffer)
RenderedStale(txt, prev) == prev
Rendered(txt, prev) == txt

\* renderText(), lines 237-249: if the texts differ, the pending text is
\* copied into prevTxtBuffer and the text region is cleared and redrawn, which
\* is one repaint more than the n counted so far
renderText(n) ==
    IF TextDiffers(txtBuffer, prevTxtBuffer)
    THEN /\ prevTxtBuffer' = Rendered(txtBuffer, prevTxtBuffer)
         /\ repaints' = n + 1
    ELSE /\ prevTxtBuffer' = prevTxtBuffer
         /\ repaints' = n

\* if (isTFT) renderText();
SwapRender ==
    /\ pc = "swap_render"
    /\ IF isTFT THEN renderText(repaints) ELSE UNCHANGED <<prevTxtBuffer, repaints>>
    /\ pc' = "swap_sei"
    /\ UNCHANGED <<bufVars, btnVars, tickVars, modeVars, txtBuffer, refrow, rowReg, iflag,
                   pinVars, outVars, scanHist, firings, counted, btnHist, opHist, refHist,
                   textOps, swaps>>

\* sei();
SwapSei ==
    /\ pc = "swap_sei"
    /\ iflag' = sei
    /\ pc' = "swap_wait"
    /\ UNCHANGED <<bufVars, btnVars, tickVars, modeVars, txtVars, refrow, rowReg, pinVars,
                   outVars, scanHist, firings, counted, btnHist, opHist, refHist, txtHist,
                   swaps>>

\* if (interruptRunning) { while (interruptTicks < 2) {} }   the loop's exit test
WaitDoneAtOne == ~interruptRunning \/ ~(interruptTicks < 1)
WaitDoneUnguarded == ~(interruptTicks < 2)
WaitDone == ~interruptRunning \/ ~(interruptTicks < 2)

\* swap() returns once the wait is over; while it is not, the loop spins
SwapReturn ==
    /\ pc = "swap_wait"
    /\ WaitDone
    /\ pc' = "idle"
    /\ lastOp' = [op |-> "swap", dirty |-> lastOp.dirty]
    /\ pulse' = IF HotActive THEN "held" ELSE "idle"
    /\ UNCHANGED <<bufVars, btnVars, tickVars, modeVars, txtVars, refrow, rowReg, iflag,
                   pinVars, outVars, scanHist, firings, counted, flip, reads,
                   pulseInLastLoop, riseInLastLoop, preOp, refHist, txtHist, swaps>>

\* lines 263-282 as one step: interrupts are masked from cli() to sei(), so
\* no firing can fall between the statements above
SwapExchange ==
    /\ pc = "idle"
    /\ buttonWentDownInLastLoop' = buttonWentDown
    /\ buttonWentDown' = ClearWentDown(buttonWentDown)
    /\ buttonStates' = debouncedButtonStates
    /\ ticks' = interruptTicks
    /\ interruptTicks' = TicksReset(interruptTicks)
    /\ frontBuffer' = PointerSwap(frontBuffer, backBuffer)[1]
    /\ backBuffer' = PointerSwap(frontBuffer, backBuffer)[2]
    /\ IF isTFT THEN renderText(0) ELSE (prevTxtBuffer' = prevTxtBuffer /\ repaints' = 0)
    /\ iflag' = sei
    /\ pc' = "swap_wait"
    /\ lastOp' = [op |-> "swap_call", dirty |-> txtBuffer # prevTxtBuffer]
    /\ pulseInLastLoop' = (pulse = "done")
    /\ riseInLastLoop' = [b \in Buttons |-> Rise(reads[b])]
    /\ reads' = [b \in Buttons |-> <<Last(reads[b])>>]
    /\ counted' = firings
    /\ firings' = 0
    /\ frontAtSwap' = Deref(frontBuffer')
    /\ scanLog' = <<>>
    /\ rowAtSwap' = refrow
    /\ UNCHANGED <<bufferA, bufferB, debouncedButtonStates, buttonDebounceCounters,
                   trueButtonStates, button, boardRev, modeVars, txtBuffer, refrow, rowReg,
                   pinVars, outVars, flip, pulse, preOp, refHist, textOps>>

\* the same in a run that does not count its swap() calls
SwapCritical == SwapExchange /\ UNCHANGED swaps

(***************************************************************************)
(* getTicks(), lines 109-112, getButton() and getButtonDown(), lines       *)
(* 321-329: what the application reads.  Buttons are numbered from 1.      *)
(***************************************************************************)
getTicksLive == interruptTicks
getTicks == ticks

getButtonDebounced(c) == debouncedButtonStates[c - 1]
getButton(c) == buttonStates[c - 1]

getButtonDownLive(c) == buttonWentDown[c - 1]
getButtonDown(c) == buttonWentDownInLastLoop[c - 1]

(***************************************************************************)
(* clearText(), lines 291-298, and addToText(), lines 300-319.  A text is  *)
(* the sequence of characters before the terminator.  Both run between     *)
(* cli() and sei(), so each is one step.                                   *)
(***************************************************************************)
\* strlen(txtBuffer) + strlen(s) + 1 < MAXTEXTLEN
FitsWithTerminator(txt, s) == Len(txt) + Len(s) + 1 <= MAXTEXTLEN
Fits(txt, s) == Len(txt) + Len(s) + 1 < MAXTEXTLEN

\* txtBuffer after addToText(s): strcat(txtBuffer, s) if the test passes
Appended(txt, s) == IF Fits(txt, s) THEN txt \o s ELSE txt

\* snprintf(tmp, 16, "%d", n) for a 16-bit int
DigitChars == <<"0", "1", "2", "3", "4", "5", "6", "7", "8", "9">>

RECURSIVE Decimal(_)
Decimal(n) ==
    IF n < 10 THEN <<DigitChars[n + 1]>>
    ELSE Append(Decimal(n \div 10), DigitChars[(n % 10) + 1])

Itoa(n) == IF n < 0 THEN <<"-">> \o Decimal(-n) ELSE Decimal(n)

clearText ==
    /\ pc = "idle"
    /\ txtBuffer' = IF isTFT THEN <<>> ELSE txtBuffer
    /\ iflag' = IF isTFT THEN sei ELSE iflag
    /\ UNCHANGED <<bufVars, btnVars, tickVars, modeVars, prevTxtBuffer, refrow, rowReg,
                   pinVars, outVars, pc>>

addToText(s) ==
    /\ pc = "idle"
    /\ txtBuffer' = IF isTFT THEN Appended(txtBuffer, s) ELSE txtBuffer
    /\ iflag' = IF isTFT THEN sei ELSE iflag
    /\ UNCHANGED <<bufVars, btnVars, tickVars, modeVars, prevTxtBuffer, refrow, rowReg,
                   pinVars, outVars, pc>>

\* addToText(int n)
addToTextInt(n) == addToText(Itoa(n))

(***************************************************************************)
(* refresh(), lines 411-435: refrow = 0, eight calls of refreshNextRow(),  *)
(* then (direct drive) the all-off column word.  refresh() does not mask   *)
(* interrupts, so a firing may fall between any two of its statements.     *)
(* Each call of refreshNextRow() is two steps here: the scan, which reads  *)
(* the cursor, and the update of the cursor.  refrow is not volatile, so   *)
(* the update may add one to the value the scan read (kept in a register)  *)
(* or to the value in memory; the two differ only if a firing fell between *)
(* the scan and the update.                                                *)
(***************************************************************************)
RefreshAt == <<"refresh_1", "refresh_2", "refresh_3", "refresh_4",
               "refresh_5", "refresh_6", "refresh_7", "refresh_8">>
AdvanceAt == <<"advance_1", "advance_2", "advance_3", "advance_4",
               "advance_5", "advance_6", "advance_7", "advance_8">>

\* refresh() is between its reset of the cursor and the end of its eighth step
InRefresh == \E k \in 1 .. NROWS : pc \in {RefreshAt[k], AdvanceAt[k]}

\* the cursor value refresh() starts from: refrow = 0
RefreshStartKept == refrow
RefreshStart == 0

\* the interrupt mask while refresh() runs: refresh() has no cli(), the mask
\* stays as the caller left it
RefreshMaskCli == cli
RefreshMask == iflag

\* refrow = 0;
RefreshReset ==
    /\ pc = "idle"
    /\ refrow' = RefreshStart
    /\ iflag' = RefreshMask
    /\ pc' = RefreshAt[1]
    /\ UNCHANGED <<bufVars, btnVars, tickVars, modeVars, txtVars, rowReg, pinVars,
                   outVars>>

\* the k-th refreshNextRow(), up to the latch of line 404
RefreshRead(k) ==
    /\ pc = RefreshAt[k]
    /\ ScanRow
    /\ rowReg' = refrow
    /\ pc' = AdvanceAt[k]
    /\ UNCHANGED <<bufVars, btnVars, tickVars, modeVars, txtVars, refrow, iflag, pinVars>>

\* the k-th refreshNextRow(), line 407
RefreshWrite(k) ==
    /\ pc = AdvanceAt[k]
    /\ \E r \in {rowReg, refrow} : refrow' = NextRow(r)
    /\ rowReg' = 0
    /\ pc' = IF k < NROWS THEN RefreshAt[k + 1] ELSE "refresh_off"
    /\ UNCHANGED <<bufVars, btnVars, tickVars, modeVars, txtVars, iflag, pinVars, outVars>>

\* the word refresh() leaves in the column chain: fastShiftOutCols(0xffff)
ColumnsOff == 65535

\* if (!isTFT) { ... fastShiftOutCols(0xffff); ... }
RefreshOff ==
    /\ pc = "refresh_off"
    /\ colSR' = IF isTFT THEN colSR ELSE fastShiftOutCols(colSR, ColumnsOff)
    /\ pc' = "idle"
    /\ lastOp' = [lastOp EXCEPT !.op = "refreshed"]
    /\ UNCHANGED <<bufVars, btnVars, tickVars, modeVars, txtVars, refrow, rowReg, iflag,
                   pinVars, rowSR, scanHist, firings, counted, btnHist, preOp, refHist,
                   txtHist, swaps>>

(***************************************************************************)
(* The environment: the button on the hot pin is pressed or released.      *)
(***************************************************************************)
PinFlip ==
    /\ IF hotPin < 4
       THEN /\ PINC' = IF BitAnd(PINC, Pow2(hotPin)) # 0
                       THEN PINC - Pow2(hotPin) ELSE PINC + Pow2(hotPin)
            /\ UNCHANGED PINB
       ELSE /\ PINB' = IF BitAnd(PINB, 2) # 0 THEN PINB - 2 ELSE PINB + 2
            /\ UNCHANGED PINC
    /\ UNCHANGED <<bufVars, btnVars, tickVars, modeVars, txtVars, refrow, rowReg, iflag,
                   hotPin, outVars, pc>>

\* the toggle with the press it belongs to followed: a press begun and ended
\* between two swap() calls is "done"
PinToggle ==
    /\ PinFlip
    /\ pulse' = CASE pulse = "idle" /\ ~HotActive -> "down"
                  [] pulse = "down" /\ HotActive -> "done"
                  [] OTHER -> pulse
    /\ UNCHANGED <<scanHist, firings, counted, flip, reads, pulseInLastLoop,
                   riseInLastLoop, opHist, refHist, txtHist, swaps>>

(***************************************************************************)
(* What a run records about a firing of the interrupt.                     *)
(***************************************************************************)
\* the row the scan step read and the word it read there
ScanObserved ==
    LET q == Append(scanLog, <<refrow, ScanWord>>)
    IN  /\ scanLog' = IF Len(q) > NROWS THEN Tail(q) ELSE q
        /\ UNCHANGED <<frontAtSwap, rowAtSwap>>

\* the level the firing read on its channel, against the level read before
FlipObserved ==
    LET level == ReadButton(boardRev, button, PINC, PINB)
    IN  flip' = [flip EXCEPT ![button] =
                    IF level # Last(reads[button])
                    THEN [age |-> 0, deb |-> debouncedButtonStates[button], at |-> firings + 1]
                    ELSE IF @.age < 0 THEN @ ELSE [@ EXCEPT !.age = @ + 1]]

\* the levels read: all of them since the last copy, or only the last one
ReadsKept ==
    reads' = [reads EXCEPT ![button] = Append(@, ReadButton(boardRev, button, PINC, PINB))]
ReadsLast ==
    reads' = [reads EXCEPT ![button] = <<ReadButton(boardRev, button, PINC, PINB)>>]


(***************************************************************************)
(* The operations as the specifications below run them: the program's step *)
(* together with what the run records of it.                               *)
(***************************************************************************)
\* set() and clear() of a frame-level run
SetPixel(x, y, col) ==
    /\ Set(x, y, col)
    /\ lastOp' = [op |-> "set"]
    /\ UNCHANGED <<scanHist, firings, counted, btnHist, preOp, refHist, txtHist, swaps>>

ClearPixels ==
    /\ Clear
    /\ lastOp' = [op |-> "clear"]
    /\ UNCHANGED <<scanHist, firings, counted, btnHist, preOp, refHist, txtHist, swaps>>

\* set() of a pixel-level run: the call and the state before it are recorded
SetObserved(x, y, col) ==
    /\ lastOp.n < MaxSets
    /\ Set(x, y, col)
    /\ lastOp' = [op |-> "set", x |-> x, y |-> y, col |-> col, n |-> lastOp.n + 1]
    /\ preOp' = [back |-> Back, state |-> progState]
    /\ UNCHANGED <<scanHist, firings, counted, btnHist, refHist, txtHist, swaps>>

\* the text calls of a text-level run: the call and the pending text before
\* it are recorded
ClearObserved ==
    /\ textOps < MaxTextOps
    /\ clearText
    /\ lastOp' = [op |-> "clearText"]
    /\ preOp' = [txt |-> txtBuffer]
    /\ textOps' = textOps + 1
    /\ UNCHANGED <<scanHist, firings, counted, btnHist, refHist, repaints, swaps>>

AddObserved(s) ==
    /\ textOps < MaxTextOps
    /\ addToText(s)
    /\ lastOp' = [op |-> "addToText", s |-> s]
    /\ preOp' = [txt |-> txtBuffer]
    /\ textOps' = textOps + 1
    /\ UNCHANGED <<scanHist, firings, counted, btnHist, refHist, repaints, swaps>>

AddIntObserved(n) ==
    /\ textOps < MaxTextOps
    /\ addToTextInt(n)
    /\ lastOp' = [op |-> "addToText", s |-> Itoa(n)]
    /\ preOp' = [txt |-> txtBuffer]
    /\ textOps' = textOps + 1
    /\ UNCHANGED <<scanHist, firings, counted, btnHist, refHist, repaints, swaps>>

\* a firing of the interrupt, with the part of the history each run keeps
Tick ==
    /\ ISR(MaxTicks)
    /\ firings' = firings + 1
    /\ UNCHANGED <<scanHist, counted, btnHist, opHist, refHist, txtHist, swaps>>

ScanTick ==
    /\ ISR(MaxTicks)
    /\ firings' = firings + 1
    /\ ScanObserved
    /\ UNCHANGED <<counted, btnHist, opHist, refHist, txtHist, swaps>>

HorizonTick ==
    /\ ISR(MaxHorizon)
    /\ firings' = firings + 1
    /\ ScanObserved
    /\ FlipObserved
    /\ ReadsLast
    /\ UNCHANGED <<counted, pulse, pulseInLastLoop, riseInLastLoop, opHist, refHist,
                   txtHist, swaps>>

ButtonTick ==
    /\ ISR(MaxTicks)
    /\ firings' = firings + 1
    /\ ReadsKept
    /\ UNCHANGED <<scanHist, counted, flip, pulse, pulseInLastLoop, riseInLastLoop, opHist,
                   refHist, txtHist, swaps>>

\* refresh() of a frame-level run: nothing but the call is recorded
RefreshBegin ==
    /\ RefreshReset
    /\ lastOp' = [op |-> "refresh"]
    /\ UNCHANGED <<scanHist, firings, counted, btnHist, preOp, refHist, txtHist, swaps>>

RefreshScan(k) ==
    /\ RefreshRead(k)
    /\ UNCHANGED hist

RefreshAdvance(k) ==
    /\ RefreshWrite(k)
    /\ UNCHANGED hist

\* refresh() of a run that records its scan steps: the call, with the cursor
\* and the firings counted when it was made, then each row scanned
RefreshBeginObserved ==
    /\ RefreshReset
    /\ lastOp' = [op |-> "refresh", from |-> refrow, at |-> firings]
    /\ refreshLog' = <<>>
    /\ window' = <<>>
    /\ UNCHANGED <<scanHist, firings, counted, btnHist, preOp, txtHist, swaps>>

RefreshScanObserved(k) ==
    /\ RefreshRead(k)
    /\ refreshLog' = Append(refreshLog, <<refrow, ScanWord>>)
    /\ window' = Append(window, refrow)
    /\ ScanObserved
    /\ UNCHANGED <<firings, counted, btnHist, opHist, txtHist, swaps>>

\* a firing of the interrupt in such a run
RefreshTick ==
    /\ ISR(MaxTicks)
    /\ firings' = firings + 1
    /\ ScanObserved
    /\ window' = IF InRefresh THEN Append(window, refrow) ELSE window
    /\ UNCHANGED <<counted, btnHist, opHist, refreshLog, txtHist, swaps>>

(***************************************************************************)
(* Spec: the frame store under every operation that touches the display:   *)
(* set, clear, swap, the manual refresh and the interrupt.  The display is *)
(* the TFT, with or without the interrupt, or the LED matrix refreshed by  *)
(* hand; the matrix under the interrupt is the subject of SpecSwap and     *)
(* SpecRefresh.                                                            *)
(***************************************************************************)
\* the set() calls of a frame-level run: one pixel of row 2, and two calls
\* outside the matrix
FrameInputs == {<<3, 2, 2>>, <<-1, 2, 3>>, <<3, 8, 3>>}

Init ==
    /\ \E tft \in BOOLEAN, noInterrupt \in BOOLEAN :
           /\ tft \/ noInterrupt
           /\ Begin(tft, noInterrupt)
    /\ hotPin = 0
    /\ NoHistory

Next ==
    \/ \E in \in FrameInputs : SetPixel(in[1], in[2], in[3])
    \/ ClearPixels
    \/ SwapCli
    \/ SwapButtons
    \/ SwapTicks
    \/ SwapPointers
    \/ SwapRender
    \/ SwapSei
    \/ SwapReturn
    \/ RefreshBegin
    \/ \E k \in 1 .. NROWS : RefreshScan(k)
    \/ \E k \in 1 .. NROWS : RefreshAdvance(k)
    \/ RefreshOff
    \/ Tick

Spec == Init /\ [][Next]_vars

(***************************************************************************)
(* SpecSwap: set, clear, swap and the interrupt, the scans recorded, on    *)
(* either display and with or without the interrupt.                       *)
(***************************************************************************)
InitSwap ==
    /\ \E tft \in BOOLEAN, noInterrupt \in BOOLEAN : Begin(tft, noInterrupt)
    /\ hotPin = 0
    /\ NoHistory

NextSwap ==
    \/ \E in \in FrameInputs : SetPixel(in[1], in[2], in[3])
    \/ ClearPixels
    \/ SwapCli
    \/ SwapButtons
    \/ SwapTicks
    \/ SwapPointers
    \/ SwapRender
    \/ SwapSei
    \/ SwapReturn
    \/ ScanTick

SpecSwap == InitSwap /\ [][NextSwap]_vars


(***************************************************************************)
(* Properties of the frame store (Spec).                                   *)
(***************************************************************************)
\* C1: in every reachable state after begin() the back and front pointers
\* refer to two different buffers, one to bufferA and the other to bufferB.
C1_BuffersDistinct ==
    /\ backBuffer # frontBuffer
    /\ {backBuffer, frontBuffer} = {"A", "B"}

\* the pointers are exchanged, a pixel is set, the interrupt has fired and a
\* manual refresh is about to end
C1_Witness ==
    /\ backBuffer = "B"
    /\ frontBuffer = "A"
    /\ bufferA # ZeroBuffer
    /\ firings > 0
    /\ pc = "refresh_off"

\* C2: between two pointer swaps nothing (no set(), clear(), refresh() and no
\* interrupt firing) changes the front buffer: its 8 words stay what they
\* were at the last pointer swap.
C2_FrontIsolated == Front = frontAtSwap

\* after a swap, with interrupts firing, set() has just written a lit pixel
\* into the back buffer and the front buffer still holds its blank frame
C2_Witness ==
    /\ lastOp.op = "set"
    /\ frontBuffer = "A"
    /\ Back[2] = 128
    /\ Front = ZeroBuffer
    /\ firings >= 3

(***************************************************************************)
(* Properties of swap() (SpecSwap).                                        *)
(***************************************************************************)
\* row y was read by a scan step since the last pointer swap, and what was
\* read is the front buffer's word
RowRead(y) == \E i \in 1 .. Len(scanLog) : scanLog[i] = <<y, Front[y]>>

\* C3: with the interrupt running, when swap() returns at least 2 firings
\* have happened since its pointer swap, each of which read one row of the
\* newly visible buffer and advanced the cursor by one.
C3_ScanCompleteness ==
    (interruptRunning /\ lastOp.op = "swap") =>
        /\ Len(scanLog) >= 2
        /\ firings >= 2
        /\ \A i \in 1 .. Len(scanLog) :
               LET row == (rowAtSwap + i - 1) % NROWS
               IN  scanLog[i] = <<row, Front[row]>>
        /\ refrow = (rowAtSwap + Len(scanLog)) % NROWS

\* swap() has returned after exactly two firings, which read the new frame
C3_Witness ==
    /\ interruptRunning
    /\ lastOp.op = "swap"
    /\ Len(scanLog) = 2
    /\ Front[2] = 128

\* C4 as claimed: with the interrupt running, when swap() returns every row
\* in which set() wrote a lit pixel before the swap has been read from the
\* newly visible buffer, wherever the cursor was.
C4_EveryWrittenRowScanned ==
    (interruptRunning /\ lastOp.op = "swap") =>
        \A y \in Rows : Front[y] # 0 => RowRead(y)

\* C4 as amended: with the interrupt running, when swap() returns the row at
\* which the cursor stood at the pointer swap and the row after it (mod 8)
\* have been read from the newly visible buffer, so a pixel written before
\* swap() is sure to have been scanned only if it lies in one of these two.
C4_TwoRowsScanned ==
    (interruptRunning /\ lastOp.op = "swap") =>
        \A y \in {rowAtSwap, (rowAtSwap + 1) % NROWS} : RowRead(y)

\* swap() has returned, the pixel written before it lies in one of the two
\* rows scanned during the wait
C4_Witness ==
    /\ interruptRunning
    /\ lastOp.op = "swap"
    /\ Front[2] = 128
    /\ rowAtSwap \in {1, 2}
    /\ Len(scanLog) = 2
    /\ RowRead(2)

\* C9: ticks is the number of firings between the previous reset of the
\* live counter (or startup) and the snapshot; the live counter is the
\* number of firings since its reset and is 0 for the rest of the critical
\* section, so no firing is counted twice or lost.
C9_TickSnapshot ==
    /\ ticks = counted
    /\ interruptTicks = firings
    /\ pc \in {"swap_ptr", "swap_render", "swap_sei"} => interruptTicks = 0

\* two swaps in a row took their snapshots; the last one counted 3 firings
C9_Witness ==
    /\ lastOp.op = "swap"
    /\ backBuffer = "A"
    /\ ticks = 3
    /\ counted = 3
    /\ firings >= 2


(***************************************************************************)
(* SpecSet: set() as a function of its inputs.  The back buffer starts     *)
(* with one of a few contents earlier writes can have left, and set() is   *)
(* called with every coordinate from one outside the matrix on each side   *)
(* and every colour.                                                       *)
(***************************************************************************)
SeedWords == {0, 65535, 4660}
SeedBuffer(w) == [r \in Rows |-> (w + r * 4369) % WORD]
Coords == -1 .. NROWS
Colours == 0 .. 3

InitSet ==
    /\ \E w \in SeedWords : Started(FALSE, FALSE, REV01, SeedBuffer(w), ZeroBuffer)
    /\ hotPin = 0
    /\ NoHistory

NextSet == \E x \in Coords, y \in Coords, col \in Colours : SetObserved(x, y, col)

SpecSet == InitSet /\ [][NextSet]_vars

\* the 2-bit field of pixel x in a row word
Field(w, x) == (w \div Pow2(2 * x)) % 4

\* C5: set(x, y, c) with x or y outside [0,8), negative values included,
\* leaves the 8 rows of the writable buffer and every other piece of state
\* as they were.
C5_CoordinateSafety ==
    (lastOp.op = "set" /\ ~(lastOp.x \in Rows /\ lastOp.y \in Rows)) =>
        /\ Back = preOp.back
        /\ progState = preOp.state

\* set() was called with a negative x on a buffer that holds lit pixels
C5_Witness ==
    /\ lastOp.op = "set"
    /\ lastOp.x = -1
    /\ lastOp.y = 3
    /\ lastOp.col = 2
    /\ Back[3] # 0

\* C6: after set(x, y, c) with x, y in [0,8) and c in {0,1,2,3}, bits
\* 2x..2x+1 of row y of the writable buffer hold c, the other 7 pixel fields
\* of row y are unchanged, and the other 7 rows are unchanged.
C6_PixelRoundTrip ==
    (lastOp.op = "set" /\ lastOp.x \in Rows /\ lastOp.y \in Rows /\ lastOp.col \in Colours) =>
        /\ Field(Back[lastOp.y], lastOp.x) = lastOp.col
        /\ \A x \in Rows \ {lastOp.x} :
               Field(Back[lastOp.y], x) = Field(preOp.back[lastOp.y], x)
        /\ \A y \in Rows \ {lastOp.y} : Back[y] = preOp.back[y]

\* set() has overwritten a pixel that held another colour, in the last
\* column of a row whose other pixels are lit
C6_Witness ==
    /\ lastOp.op = "set"
    /\ lastOp.x = 7
    /\ lastOp.y = 0
    /\ lastOp.col = 1
    /\ Field(preOp.back[0], 7) = 3
    /\ Field(Back[0], 7) = 1
    /\ Field(Back[0], 6) = 3

(***************************************************************************)
(* SpecTimer: the interrupt alone, the application never calling swap(),   *)
(* while one button is pressed and released at will.                       *)
(***************************************************************************)
InitTimer ==
    /\ \E tft \in BOOLEAN, rev \in {REV00, REV01} :
           Started(tft, FALSE, rev, ZeroBuffer, ZeroBuffer)
    /\ hotPin \in 0 .. 4
    /\ NoHistory

NextTimer ==
    \/ HorizonTick
    \/ PinToggle

SpecTimer == InitTimer /\ [][NextTimer]_vars

\* C7: once a sample of a channel reads a level other than the one its
\* debounced state holds, and the level then stays, the debounced state
\* keeps its old value through the next 3 samples of that channel and takes
\* the new level at the 4th (the 20th firing after that sample), and keeps
\* it at every later sample: it changes exactly once.
C7_DebounceStability ==
    \A b \in Buttons :
        (flip[b].age >= 0 /\ flip[b].deb # Last(reads[b])) =>
            /\ flip[b].age = (firings - flip[b].at) \div NBUTTONS
            /\ debouncedButtonStates[b] =
                   IF firings - flip[b].at >= 20 THEN Last(reads[b]) ELSE flip[b].deb
            /\ flip[b].age >= 4 <=> debouncedButtonStates[b] = Last(reads[b])

\* a press was read, the 4th sample after it has just committed it
C7_Witness ==
    \E b \in Buttons :
        /\ flip[b].age = 4
        /\ flip[b].deb = 0
        /\ firings - flip[b].at = 20
        /\ debouncedButtonStates[b] = 1
        /\ b # 0

\* C10: the refresh cursor is always in [0,8); the scan steps read rows
\* cursor, cursor+1, ... (mod 8), and any 8 consecutive ones read each of
\* the 8 rows exactly once and leave the cursor where it started.
C10_CursorWraparound ==
    /\ refrow \in Rows
    /\ \A i \in 1 .. Len(scanLog) : scanLog[i][1] = (scanLog[1][1] + i - 1) % NROWS
    /\ Cardinality({scanLog[i][1] : i \in 1 .. Len(scanLog)}) = Len(scanLog)
    /\ Len(scanLog) = NROWS =>
           /\ {scanLog[i][1] : i \in 1 .. NROWS} = Rows
           /\ refrow = scanLog[1][1]

\* 8 consecutive scan steps that started at row 5
C10_Witness ==
    /\ Len(scanLog) = NROWS
    /\ scanLog[1][1] = 5
    /\ scanLog[4][1] = 0
    /\ refrow = 5

(***************************************************************************)
(* SpecButtons: swap() and the interrupt while one button is pressed and   *)
(* released at will.                                                       *)
(***************************************************************************)
\* the channel the interrupt reads from the hot pin
HotChannel ==
    CHOOSE b \in Buttons :
        PinOf(boardRev, b) = IF hotPin < 4 THEN <<"C", Pow2(hotPin)>> ELSE <<"B", 2>>

\* the pins operated in these runs: one of port C and the one of port B
HotPins == {0, 4}

InitButtons ==
    /\ Begin(TRUE, FALSE)
    /\ hotPin \in HotPins
    /\ NoHistory

NextButtons ==
    \/ PinToggle
    \/ SwapCritical
    \/ SwapReturn
    \/ ButtonTick

SpecButtons == InitButtons /\ [][NextButtons]_vars

NextRefresh ==
    \/ \E in \in FrameInputs : SetPixel(in[1], in[2], in[3])
    \/ RefreshBeginObserved
    \/ \E k \in 1 .. NROWS : RefreshScanObserved(k)
    \/ \E k \in 1 .. NROWS : RefreshAdvance(k)
    \/ RefreshOff
    \/ RefreshTick

SpecRefresh == InitSwap /\ [][NextRefresh]_vars

\* the scan steps of a whole pass over the front buffer, rows 0 to 7 in order
FullPass == [i \in 1 .. NROWS |-> <<i - 1, Front[i - 1]>>]

\* C11: a refresh() during which no interrupt fired (the interrupt was never
\* started, or no firing fell inside the call), whatever the cursor was when
\* it was called, has performed exactly 8 scan steps, which read rows 0 to 7
\* of the front buffer in that order, has left the cursor at 0 and, in
\* direct drive, has left the all-off word 0xffff in the column chain.
C11_ManualRefresh ==
    (lastOp.op = "refreshed" /\ firings = lastOp.at) =>
        /\ refreshLog = FullPass
        /\ refrow = 0
        /\ ~isTFT => colSR = 65535

\* refresh() was called with the cursor at row 3 and a lit pixel waiting in
\* the back buffer, no firing fell inside it, and it has returned
C11_Witness ==
    /\ lastOp.op = "refreshed"
    /\ lastOp.from = 3
    /\ firings = lastOp.at
    /\ ~isTFT
    /\ Back[2] = 128
    /\ refreshLog[3] = <<2, 0>>
    /\ Len(refreshLog) = NROWS

(***************************************************************************)
(* SpecText: the text calls and swap(), on either display, the interrupt   *)
(* not started (no firing reads or writes a text buffer).                  *)
(***************************************************************************)
\* a text of n characters c
Run(c, n) == [i \in 1 .. n |-> c]

TextInputs == {<<"S", "c", "o", "r", "e", ":", " ">>, Run("a", 15), Run("b", 16), Run("c", 31)}
IntInputs == {42, -32768}

InitText ==
    /\ \E tft \in BOOLEAN : Begin(tft, TRUE)
    /\ hotPin = 0
    /\ NoHistory

NextText ==
    \/ ClearObserved
    \/ \E s \in TextInputs : AddObserved(s)
    \/ \E n \in IntInputs : AddIntObserved(n)
    \/ SwapCritical
    \/ SwapReturn

SpecText == InitText /\ [][NextText]_vars

\* C12 as claimed: on the TFT, addToText(s) appends all of s whenever the
\* resulting text and its terminator fit in the 32 bytes of the buffer, and
\* otherwise leaves the pending text as it was; the pending text with its
\* terminator never exceeds the buffer.
C12_AppendWhenFits ==
    /\ Len(txtBuffer) + 1 <= MAXTEXTLEN
    /\ (isTFT /\ lastOp.op = "addToText") =>
           txtBuffer = IF Len(preOp.txt) + Len(lastOp.s) + 1 <= MAXTEXTLEN
                       THEN preOp.txt \o lastOp.s ELSE preOp.txt

\* C12 as amended: on the TFT, addToText(s) appends all of s whenever the
\* resulting text and its terminator take fewer than 32 bytes (the text at
\* most 30 characters), and otherwise leaves the pending text as it was; the
\* pending text never exceeds 30 characters.  Off the TFT it does nothing.
C12_AppendBelowCapacity ==
    /\ Len(txtBuffer) + 1 < MAXTEXTLEN
    /\ ~isTFT => txtBuffer = <<>>
    /\ (isTFT /\ lastOp.op = "addToText") =>
           txtBuffer = IF Len(preOp.txt) + Len(lastOp.s) <= MAXTEXTLEN - 2
                       THEN preOp.txt \o lastOp.s ELSE preOp.txt

\* a text of 15 characters was pending and 16 more were refused: the 31
\* characters and the terminator would have filled the buffer exactly
C12_Witness ==
    /\ isTFT
    /\ lastOp.op = "addToText"
    /\ lastOp.s = Run("b", 16)
    /\ preOp.txt = Run("a", 15)
    /\ txtBuffer = Run("a", 15)

\* C13: on the TFT, a swap() repaints the text region once if the pending
\* text differed from the last rendered text when it was called and not at
\* all if they were equal; after it the last rendered text equals the
\* pending text, and a swap() called next, with no clearText() or
\* addToText() in between, repaints zero times.
C13_RepaintGating ==
    /\ [](isTFT /\ lastOp.op \in {"swap_call", "swap"} =>
              /\ repaints = IF lastOp.dirty THEN 1 ELSE 0
              /\ prevTxtBuffer = txtBuffer)
    /\ [][(isTFT /\ lastOp.op = "swap" /\ lastOp'.op = "swap_call") => repaints' = 0]_vars

\* "Score: " and 42 were appended and swap() has repainted the text once
C13_Witness ==
    /\ isTFT
    /\ lastOp.op = "swap"
    /\ lastOp.dirty
    /\ repaints = 1
    /\ txtBuffer = <<"S", "c", "o", "r", "e", ":", " ", "4", "2">>
    /\ prevTxtBuffer = txtBuffer

(***************************************************************************)
(* SpecSnapshot: set, clear and swap among firings of the interrupt while  *)
(* one button is pressed and released at will, and the same calls with     *)
(* refresh() where the interrupt was not started.                          *)
(***************************************************************************)
PinMove == PinFlip /\ UNCHANGED hist

SetCall(x, y, col) == Set(x, y, col) /\ UNCHANGED hist

ClearCall == Clear /\ UNCHANGED hist

\* refresh() used as its documentation asks (AberLED.h:161-163): only when
\* the interrupt is not running
RefreshDocumented == ~interruptRunning /\ RefreshBegin

InitSnapshot ==
    /\ \E noInterrupt \in BOOLEAN : Begin(TRUE, noInterrupt)
    /\ hotPin = 0
    /\ NoHistory

NextSnapshot ==
    \/ PinMove
    \/ \E in \in FrameInputs : SetCall(in[1], in[2], in[3])
    \/ ClearCall
    \/ SwapCritical
    \/ SwapReturn
    \/ RefreshDocumented
    \/ \E k \in 1 .. NROWS : RefreshScan(k)
    \/ \E k \in 1 .. NROWS : RefreshAdvance(k)
    \/ RefreshOff
    \/ Tick

SpecSnapshot == InitSnapshot /\ [][NextSnapshot]_vars

\* what getButton, getButtonDown and getTicks return
Snapshot ==
    <<[c \in 1 .. NBUTTONS |-> getButton(c)], [c \in 1 .. NBUTTONS |-> getButtonDown(c)],
      getTicks>>

\* C14: the values getButton, getButtonDown and getTicks return change only
\* in the critical section of swap(): no firing of the interrupt, not even
\* one that commits a debounced state or sets a went-down flag, and no
\* set(), clear() or refresh() changes them.
C14_SnapshotStability ==
    [][Snapshot' # Snapshot => (pc = "idle" /\ pc' = "swap_wait")]_vars

\* since the last swap() a firing has committed the press, the tick counter
\* has moved on and a pixel was set, and the application still reads the
\* button as up and the old tick count
C14_Witness ==
    /\ debouncedButtonStates[0] = 1
    /\ getButton(1) = 0
    /\ interruptTicks # getTicks
    /\ Back[2] = 128


(***************************************************************************)
(* SpecSwapFair: SpecSwap with the scheduling the hardware gives.  The     *)
(* timer keeps firing while the interrupt is enabled and unmasked, and the *)
(* processor keeps executing swap() once it was called; whether and when   *)
(* the application calls set, clear or swap is left open.                  *)
(***************************************************************************)
SwapStep ==
    SwapButtons \/ SwapTicks \/ SwapPointers \/ SwapRender \/ SwapSei \/ SwapReturn

SpecSwapFair ==
    InitSwap /\ [][NextSwap]_vars /\ WF_vars(ScanTick) /\ WF_vars(SwapStep)

\* C15: every swap() call eventually returns; where the interrupt was never
\* started no tick ever occurs, so swap() returns without waiting for one.
C15_SwapTerminates ==
    /\ (pc # "idle") ~> (pc = "idle")
    /\ [](~interruptRunning => (firings = 0 /\ interruptTicks = 0))

\* swap() has just returned after waiting for its second tick
C15_Witness ==
    /\ pc = "idle"
    /\ lastOp.op = "swap"
    /\ interruptRunning
    /\ getTicksLive = 2
    /\ firings = 2
    /\ counted > 0

(***************************************************************************)
(* The exchange of swap(): from after cli() to before sei() has run.       *)
(***************************************************************************)
InExchange == pc \in {"swap_copy", "swap_ticks", "swap_ptr", "swap_render", "swap_sei"}

\* C16: interrupts stay masked from cli() to sei(), and every firing of the
\* interrupt (the only step that moves the channel index) falls either
\* before swap() was called or after sei(), never among the copies of the
\* button states, the tick snapshot and reset, and the pointer swap.
C16_ExchangeAtomic ==
    /\ [](InExchange => ~iflag)
    /\ [][button' # button => (~InExchange /\ pc' = pc)]_vars

\* the exchange is half done (buttons and ticks copied, pointers not yet
\* swapped) after the interrupt had fired, with the interrupt still running
C16_Witness ==
    /\ pc = "swap_ptr"
    /\ interruptRunning
    /\ ~iflag
    /\ counted = 2
    /\ getTicks = 2
    /\ getTicksLive = 0
    /\ frontBuffer = "B"

(***************************************************************************)
(* The debounce record the interrupt keeps for a channel.                  *)
(***************************************************************************)
ChannelRecord(b) ==
    <<buttonDebounceCounters[b], trueButtonStates[b], buttonWentDown[b],
      debouncedButtonStates[b]>>

\* C17: a firing moves the channel index on by one modulo 5, so that from
\* begin() the n-th firing samples channel n mod 5 and any 5 consecutive
\* firings sample each channel once; it changes the debounce counter, the
\* previous true state, the went-down flag and the debounced state of the
\* channel it samples only; every debounce counter is in 0..3.
C17_RoundRobin ==
    /\ [](button = firings % NBUTTONS)
    /\ [](\A b \in Buttons : buttonDebounceCounters[b] \in 0 .. 3)
    /\ [][firings' # firings =>
              /\ button' = (button + 1) % NBUTTONS
              /\ \A b \in Buttons \ {button} : ChannelRecord(b)' = ChannelRecord(b)]_vars

\* after two rounds and two more firings the press of the button on channel
\* 1 was sampled three times while the other channels kept counting
C17_Witness ==
    /\ firings = 12
    /\ button = 2
    /\ HotChannel = 1
    /\ ChannelRecord(1) = <<2, 1, 1, 0>>
    /\ ChannelRecord(0) = <<3, 0, 0, 0>>
    /\ ChannelRecord(2) = <<2, 0, 0, 0>>

(***************************************************************************)
(* The column chain after a scan step in direct drive.                     *)
(***************************************************************************)
\* the frame that clear(), set(3, 2, RED), swap() makes visible
RedPixelFrame == [ZeroBuffer EXCEPT ![2] = 128]

\* C18: in direct drive, after every scan step the column chain holds the
\* bitwise complement of the visible buffer's row at the cursor the step
\* read; when the visible frame is the one clear(), set(3,2,RED), swap()
\* leaves, that is the word with only bit 7 low after a scan of row 2 and
\* the word with all 16 bits high after a scan of any other row.
C18_ColumnOutput ==
    (~isTFT /\ scanLog # <<>>) =>
        LET row == Last(scanLog)[1]
        IN  /\ colSR = WORD - 1 - frontAtSwap[row]
            /\ frontAtSwap = RedPixelFrame =>
                   colSR = IF row = 2 THEN WORD - 1 - 128 ELSE WORD - 1

\* row 2 of the frame with the one red pixel has just been shifted out while
\* the application was already clearing the other buffer
C18_Witness ==
    /\ ~isTFT
    /\ scanLog # <<>>
    /\ Last(scanLog)[1] = 2
    /\ frontAtSwap = RedPixelFrame
    /\ Front = RedPixelFrame
    /\ colSR = 65407
    /\ lastOp.op = "clear"

(***************************************************************************)
(* SpecScan: the LED matrix refreshed by one context only.  Where the      *)
(* interrupt runs it does all the scanning; where it was not started the   *)
(* application scans with refresh(), as the header asks of refresh().      *)
(***************************************************************************)
RefreshDocumentedObserved == ~interruptRunning /\ RefreshBeginObserved

InitScan ==
    /\ \E noInterrupt \in BOOLEAN : Begin(FALSE, noInterrupt)
    /\ hotPin = 0
    /\ NoHistory

NextScan ==
    \/ \E in \in FrameInputs : SetPixel(in[1], in[2], in[3])
    \/ RefreshDocumentedObserved
    \/ \E k \in 1 .. NROWS : RefreshScanObserved(k)
    \/ \E k \in 1 .. NROWS : RefreshAdvance(k)
    \/ RefreshOff
    \/ HorizonTick

SpecScan == InitScan /\ [][NextScan]_vars

\* C19: in direct drive, with the manual refresh never run while the
\* interrupt is active, after every scan step the row chain holds exactly
\* one active bit, at the position of the row the step scanned.
C19_RowSelectOneHot ==
    (~isTFT /\ scanLog # <<>>) => rowSR = Pow2(Last(scanLog)[1])

\* the interrupt has gone round all 8 rows once and has scanned rows 0 and 1
\* again: the bit that fell off the chain was put back in at row 0
C19_Witness ==
    /\ ~isTFT
    /\ interruptRunning
    /\ firings = 10
    /\ Len(scanLog) = NROWS
    /\ Last(scanLog)[1] = 1
    /\ rowSR = 2

(***************************************************************************)
(* refresh() among firings of the interrupt (SpecRefresh).                 *)
(***************************************************************************)
\* the rows the scan steps of the last refresh() read, in order
RefreshRows == [i \in 1 .. Len(refreshLog) |-> refreshLog[i][1]]

\* firings that fell between the cursor reset of the last refresh() and the
\* end of its eighth step
FiringsInside == Len(window) - Len(refreshLog)

\* the steps of refresh() were not rows 0..7 in order, or the rows scanned
\* by both contexts while it ran do not follow one another: one was skipped
\* or scanned twice
Corrupted ==
    \/ RefreshRows # [i \in 1 .. NROWS |-> i - 1]
    \/ \E i \in 1 .. (Len(window) - 1) : window[i + 1] # (window[i] + 1) % NROWS

\* C20: refresh() never masks the interrupt, so firings fall inside it
\* wherever the interrupt runs; and every refresh() inside which between 1
\* and 7 firings fell, at whatever points, is corrupted, while one inside
\* which none fell is not.
C20_RefreshMisuse ==
    /\ (InRefresh /\ interruptRunning) => iflag
    /\ (~InRefresh /\ Len(refreshLog) = NROWS) =>
           /\ FiringsInside \in 1 .. (NROWS - 1) => Corrupted
           /\ FiringsInside = 0 => ~Corrupted

\* one firing fell right after the cursor reset: refresh() scanned row 1
\* first and row 0 last, and row 0 went out twice in 9 steps
C20_Witness ==
    /\ interruptRunning
    /\ lastOp.op = "refreshed"
    /\ FiringsInside = 1
    /\ RefreshRows = <<1, 2, 3, 4, 5, 6, 7, 0>>
    /\ window = <<0, 1, 2, 3, 4, 5, 6, 7, 0>>
    /\ Corrupted

(***************************************************************************)
(* SpecFrames: swap() and the interrupt over frames of very different      *)
(* lengths.  The application calls swap() after a short frame (at most     *)
(* MaxTicks firings, as elsewhere) or, once, between its first and its     *)
(* second swap(), after a pause long enough for the 16-bit live counter to *)
(* come within MaxTicks firings of its largest value or to pass it.        *)
(***************************************************************************)
\* the largest value of an int
INTMAX == INTWORD \div 2 - 1

\* the values of the live counter at which the application calls swap()
FrameTimes ==
    (0 .. MaxTicks) \cup ((INTMAX - MaxTicks) .. INTMAX)
        \cup ((-INTMAX - 1) .. (-INTMAX - 1 + MaxTicks))

\* a firing: within a short frame, or during the long pause until the counter
\* has passed its largest value by MaxTicks
FrameTick ==
    /\ \/ interruptTicks \in 0 .. (MaxTicks - 1)
       \/ swaps = 1 /\ (interruptTicks >= 0 \/ interruptTicks < -INTMAX - 1 + MaxTicks)
    /\ ISR(INTMAX + 1)
    /\ firings' = firings + 1
    /\ UNCHANGED <<scanHist, counted, btnHist, opHist, refHist, txtHist, swaps>>

FrameSwap ==
    /\ swaps < MaxSwaps
    /\ interruptTicks \in FrameTimes
    /\ SwapExchange
    /\ swaps' = swaps + 1

InitFrames ==
    /\ \E tft \in BOOLEAN : Begin(tft, FALSE)
    /\ hotPin = 0
    /\ NoHistory

NextFrames ==
    \/ FrameSwap
    \/ SwapReturn
    \/ FrameTick

SpecFrames == InitFrames /\ [][NextFrames]_vars

\* the exchange of the second swap() has just run after a frame of 32768
\* firings: the snapshot C9 is about holds the smallest int, not the count
C9_Overflow ==
    /\ pc = "swap_wait"
    /\ lastOp.op = "swap_call"
    /\ swaps = 2
    /\ counted = INTMAX + 1
    /\ getTicks = -INTMAX - 1
    /\ getTicksLive = 0

\* C21 as claimed: with the interrupt running, after every swap() but the
\* first one after begin(), getTicks() is at least 2.
C21_TicksAtLeastTwo ==
    (interruptRunning /\ lastOp.op = "swap" /\ swaps >= 2) => getTicks >= 2

\* the second swap() has returned after a frame of 32768 firings, and
\* getTicks() is the smallest int
C21_Witness ==
    /\ interruptRunning
    /\ lastOp.op = "swap"
    /\ swaps = 2
    /\ counted = INTMAX + 1
    /\ getTicks = -INTMAX - 1

(***************************************************************************)
(* SpecGlitch: swap() and the interrupt while the button of channel 0 is   *)
(* pressed and released at will, the length of each run of equal samples   *)
(* of a channel followed up to 5.                                          *)
(***************************************************************************)
\* flip[b].age: the samples of the channel since the last one that read a
\* changed level, counted up to 5; flip[b].deb: its debounced state before
StreakObserved ==
    LET level == ReadButton(boardRev, button, PINC, PINB)
    IN  flip' = [flip EXCEPT ![button] =
                    IF level # Last(reads[button])
                    THEN [age |-> 0, deb |-> debouncedButtonStates[button], at |-> 0]
                    ELSE IF @.age < 0 \/ @.age >= 5 THEN @ ELSE [@ EXCEPT !.age = @ + 1]]

GlitchTick ==
    /\ ISR(MaxTicks)
    /\ firings' = firings + 1
    /\ StreakObserved
    /\ ReadsLast
    /\ UNCHANGED <<scanHist, counted, pulse, pulseInLastLoop, riseInLastLoop, opHist,
                   refHist, txtHist, swaps>>

InitGlitch ==
    /\ Begin(TRUE, FALSE)
    /\ hotPin = 0
    /\ NoHistory

NextGlitch ==
    \/ PinMove
    \/ SwapCritical
    \/ SwapReturn
    \/ GlitchTick

SpecGlitch == InitGlitch /\ [][NextGlitch]_vars

\* C22: a channel's debounced state goes from inactive to active only at a
\* sample that is at least the 5th in a row to read the channel active, so
\* while and after a pulse read active on fewer than 5 consecutive samples
\* the debounced state stays inactive, and getButton, which only ever takes
\* the debounced state, does not become 1; yet the very first sample that
\* reads the channel active sets its went-down flag.
C22_GlitchRejection ==
    /\ [](\A b \in Buttons :
              (flip[b].age >= 0 /\ flip[b].deb = 0
                   /\ (trueButtonStates[b] = 1 => flip[b].age < 4)) =>
                  debouncedButtonStates[b] = 0)
    /\ [][\A b \in Buttons :
              /\ (debouncedButtonStates[b] = 0 /\ debouncedButtonStates'[b] = 1) =>
                     (trueButtonStates'[b] = 1 /\ flip'[b].age >= 4)
              /\ (getButton(b + 1) = 0 /\ getButton(b + 1)' = 1) =>
                     debouncedButtonStates[b] = 1
              /\ (firings' = firings + 1 /\ button = b /\ trueButtonStates'[b] = 1
                      /\ flip'[b].age = 0) =>
                     buttonWentDown'[b] = 1]_vars

\* a press was read active by one sample and inactive by the next; the
\* swap() between the two has returned: getButtonDown reports the press,
\* getButton does not, and the debounced state never left inactive
C22_Witness ==
    /\ lastOp.op = "swap"
    /\ getButtonDown(1) = 1
    /\ getButton(1) = 0
    /\ getButtonDebounced(1) = 0
    /\ trueButtonStates[0] = 0
    /\ flip[0] = [age |-> 0, deb |-> 0, at |-> 0]
    /\ ~HotActive

=============================================================================
